---- MODULE Spec2Model ----
(***************************************************************************)
(* Model of src/mane.py: the Hacker News collection and analysis pipeline. *)
(* One coordinating thread walks the stages of                             *)
(* Data_collection_and_analysis_from_Hacker_News; the fetches of a batch   *)
(* run on the threads of a ThreadPoolExecutor and finish in any order.     *)
(* The files top_stories.csv, comments.csv and statistical_analysis.csv    *)
(* outlive a run: the script starts in a directory that is empty or holds  *)
(* the comments.csv an earlier run wrote.                                  *)
(***************************************************************************)
EXTENDS Integers, Sequences, FiniteSets, TLC

MaxId == 3        \* item identifiers of stories are 1..MaxId
MaxLen == 2       \* longest top-story identifier list
MaxWorkers == 2   \* largest pool size

VARIABLES
    stage,                  \* stage of the orchestrator
    pc,                     \* position of the coordinating thread in the stage
    err,                    \* exception that ended the run, "none" if none
    top_stories_ids_array,  \* line 309
    num_of_stories,         \* parameter of the run
    max_workers,            \* threads of the pool
    executor,               \* "none", "open" or "shut"
    batch,                  \* the identifiers handed to executor.map
    futures,                \* fs of executor.map, one future per identifier
    doneOrder,              \* positions of the futures in order of completion
    details_list,           \* story_details_list / comment_details_list so far
    exc,                    \* exception in flight inside a with block
    stories_data,           \* line 56
    si,                     \* stories of stories_data handled by line 102
    refetched,              \* outcome of line 105 for each handled story
    comments_data,          \* line 100
    handle,                 \* name of the file the open csvfile refers to
    files,                  \* the three files on disk
    stories_df,             \* line 327
    comments_df,            \* line 328
    stats_results           \* line 143

vars == <<stage, pc, err, top_stories_ids_array, num_of_stories,
          max_workers, executor, batch, futures, doneOrder, details_list,
          exc, stories_data, si, refetched, comments_data, handle, files,
          stories_df, comments_df, stats_results>>

poolVars == <<executor, batch, futures, doneOrder, details_list, exc>>
runVars == <<top_stories_ids_array, num_of_stories, max_workers>>
tableVars == <<stories_data, si, refetched, comments_data>>
frameVars == <<stories_df, comments_df, stats_results>>

----------------------------------------------------------------------------
(* The remote API: an item endpoint answers with the item of the requested *)
(* identifier, with null, or the request fails.                            *)

StoryIds == 1..MaxId
IdLists == UNION {[1..n -> StoryIds] : n \in 0..MaxLen}
Limits == -1..MaxLen
Outcomes == {"item", "null", "raised"}

Min(a, b) == IF a < b THEN a ELSE b
Max(a, b) == IF a > b THEN a ELSE b
Range(s) == {s[i] : i \in 1..Len(s)}

\* a text value of a record: absent (None), or a string
NoneText == [k |-> "none", s |-> ""]
Str(s) == [k |-> "str", s |-> s]
NaN == [k |-> "nan", s |-> ""]

\* the 'kids' field of the item of a story; even identifiers have none
HasKids(id) == id % 2 = 1
Kids(id) == IF ~HasKids(id) THEN <<>>
            ELSE IF id = 1 THEN <<11, 12>> ELSE <<10 * id + 1>>
\* the 'url' field of the item of a story is present for some stories
HasUrl(id) == id <= 2
\* the 'text' field of the item of a comment: a text, absent, or empty
Text(cid) == IF cid % 10 = 2 THEN NoneText
             ELSE IF cid < 20 THEN Str("hi") ELSE Str("")

\* response.json() of fetch_story_details / fetch_comment_details
Null == [kind |-> "null", id |-> 0]
Item(id) == [kind |-> "item", id |-> id]
Result(f) == IF f.st = "item" THEN Item(f.id) ELSE Null
Truthy(d) == d.kind = "item"

----------------------------------------------------------------------------
(* Pure parts of the code.                                                 *)

\* array[:num_stories] of line 58, a Python slice
WholeArray(array, n) == array
PySlice(array, n) ==
    IF n >= 0 THEN SubSeq(array, 1, Min(n, Len(array)))
    ELSE SubSeq(array, 1, Max(Len(array) + n, 0))

\* the dictionary of lines 61-71
StoryRecord(d) == [id |-> d.id, url |-> HasUrl(d.id),
                   comments_count |-> Len(Kids(d.id))]

\* stories_data.append of line 61
PrependStory(data, rec) == <<rec>> \o data
AppendStory(data, rec) == Append(data, rec)

\* the loop of lines 59-71
RECURSIVE BuildStories(_, _)
BuildStories(list, data) ==
    IF list = <<>> THEN data
    ELSE BuildStories(Tail(list),
                      IF Truthy(Head(list))
                      THEN AppendStory(data, StoryRecord(Head(list)))
                      ELSE data)

\* 'parent_story': story_id of line 115
ParentOfComment(story_id, cid) == cid
ParentStory(story_id, cid) == story_id

\* the dictionary of lines 111-116; cid and src are not fields of the code's
\* record: they name the comment and the row of stories_data it came from
CommentRecord(d, story_id, pos) ==
    [text |-> Text(d.id), parent_story |-> ParentStory(story_id, d.id),
     cid |-> d.id, src |-> pos]

\* the loop of lines 109-116
RECURSIVE BuildComments(_, _, _, _)
BuildComments(list, data, story_id, pos) ==
    IF list = <<>> THEN data
    ELSE BuildComments(Tail(list),
                       IF Truthy(Head(list))
                       THEN Append(data, CommentRecord(Head(list), story_id, pos))
                       ELSE data,
                       story_id, pos)

\* the k-th value the iterator of executor.map yields is the result of the
\* k-th future submitted, whatever the order of completion
YieldCompleted(k, order) == IF k <= Len(order) THEN order[k] ELSE k
YieldIndex(k, order) == k

\* ThreadPoolExecutor.__exit__ is shutdown(wait=True): it returns when no
\* work item is queued or running
ShutdownNoWait(fs) == TRUE
ShutdownWaited(fs) == \A i \in 1..Len(fs) : fs[i].st \notin {"pending", "running"}

\* leaving the with block of a csvfile closes it
CloseOnExit(h) == "none"

----------------------------------------------------------------------------
NoFile == [exists |-> FALSE, rows |-> <<>>]
\* the comments.csv of an earlier run that fetched comment 11 of story 1
EarlierComments == [exists |-> TRUE, rows |-> <<[text |-> "hi", parent_story |-> 1]>>]
NoStats == [computed |-> FALSE]

Init ==
    /\ stage = "idle"
    /\ pc = "idle"
    /\ err = "none"
    /\ top_stories_ids_array = <<>>
    /\ num_of_stories = 0
    /\ max_workers = 1
    /\ executor = "none"
    /\ batch = <<>>
    /\ futures = <<>>
    /\ doneOrder = <<>>
    /\ details_list = <<>>
    /\ exc = "none"
    /\ stories_data = <<>>
    /\ si = 0
    /\ refetched = <<>>
    /\ comments_data = <<>>
    /\ handle = "none"
    /\ \E c \in {NoFile, EarlierComments} :
          files = [top_stories |-> NoFile, comments |-> c,
                   statistical_analysis |-> NoFile]
    /\ stories_df = <<>>
    /\ comments_df = <<>>
    /\ stats_results = NoStats

Ended == pc \in {"done", "failed"}

\* lines 334, 309: the script starts and the top-story list arrives
StartRun ==
    /\ pc = "idle"
    /\ \E ids \in IdLists, n \in Limits, w \in 1..MaxWorkers :
          /\ top_stories_ids_array' = ids
          /\ num_of_stories' = n
          /\ max_workers' = w
    /\ stage' = "stories"
    /\ pc' = "call"
    /\ UNCHANGED <<err, poolVars, tableVars, handle, files, frameVars>>

\* line 309: the request for the top-story list fails
StartRunRaises ==
    /\ pc = "idle"
    /\ err' = "RequestException"
    /\ stage' = "top_ids"
    /\ pc' = "failed"
    /\ UNCHANGED <<runVars, poolVars, tableVars, handle, files, frameVars>>

----------------------------------------------------------------------------
(* executor.map and the pool, shared by lines 57-58 and 101-108.           *)

AfterSubmit(n, b) == IF n = Len(b) THEN "collect" ELSE "submit"

\* self.submit(fn, *args) of the list comprehension in executor.map
Submit ==
    /\ pc = "submit"
    /\ Len(futures) < Len(batch)
    /\ futures' = Append(futures, [id |-> batch[Len(futures) + 1], st |-> "pending"])
    /\ pc' = AfterSubmit(Len(futures) + 1, batch)
    /\ UNCHANGED <<runVars, stage, err, executor, batch, doneOrder, details_list,
                   exc, tableVars, handle, files, frameVars>>

\* submit cannot start a thread: the exception leaves the with block
SubmitRaises ==
    /\ pc = "submit"
    /\ Len(futures) < Len(batch)
    /\ exc' = "RuntimeError"
    /\ pc' = "with_exit"
    /\ UNCHANGED <<runVars, stage, err, executor, batch, futures, doneOrder,
                   details_list, tableVars, handle, files, frameVars>>

Running(fs) == {i \in 1..Len(fs) : fs[i].st = "running"}

\* a worker thread takes the oldest queued work item
WorkerStart(i) ==
    /\ executor = "open"
    /\ futures[i].st = "pending"
    /\ \A j \in 1..(i - 1) : futures[j].st # "pending"
    /\ Cardinality(Running(futures)) < max_workers
    /\ futures' = [futures EXCEPT ![i].st = "running"]
    /\ UNCHANGED <<runVars, stage, pc, err, executor, batch, doneOrder,
                   details_list, exc, tableVars, handle, files, frameVars>>

\* lines 27-29 / 41-43 on a worker thread: requests.get(...).json() gives the
\* item, gives None, or raises; the future keeps the value or the exception
WorkerFetch(i, outcome) ==
    /\ futures[i].st = "running"
    /\ futures' = [futures EXCEPT ![i].st = outcome]
    /\ doneOrder' = Append(doneOrder, i)
    /\ UNCHANGED <<runVars, stage, pc, err, executor, batch, details_list, exc,
                   tableVars, handle, files, frameVars>>

Finished(f) == f.st \in {"item", "null", "raised"}

\* list(...) takes the next value of the iterator: fs.pop().result()
Collect ==
    /\ pc = "collect"
    /\ Len(details_list) < Len(futures)
    /\ LET k == Len(details_list) + 1
           f == futures[YieldIndex(k, doneOrder)]
       IN  /\ f.st \in {"item", "null"}
           /\ details_list' = Append(details_list, Result(f))
    /\ UNCHANGED <<runVars, stage, pc, err, executor, batch, futures, doneOrder,
                   exc, tableVars, handle, files, frameVars>>

\* result() re-raises the exception of the fetch; the finally clause of the
\* iterator cancels the futures not yet taken, and the exception leaves the
\* with block
CollectRaises ==
    /\ pc = "collect"
    /\ Len(details_list) < Len(futures)
    /\ LET k == Len(details_list) + 1
       IN  /\ futures[YieldIndex(k, doneOrder)].st = "raised"
           /\ futures' = [i \in 1..Len(futures) |->
                            IF futures[i].st = "pending"
                            THEN [futures[i] EXCEPT !.st = "cancelled"]
                            ELSE futures[i]]
    /\ exc' = "RequestException"
    /\ pc' = "with_exit"
    /\ UNCHANGED <<runVars, stage, err, executor, batch, doneOrder, details_list,
                   tableVars, handle, files, frameVars>>

\* the iterator of executor.map is exhausted and the list it filled has been
\* consumed: the futures and the results of the batch are released
ReleaseBatch ==
    /\ batch' = <<>>
    /\ futures' = <<>>
    /\ doneOrder' = <<>>
    /\ details_list' = <<>>

\* __exit__ of the pool with an exception in flight: the run ends
PoolExitRaises ==
    /\ pc = "with_exit"
    /\ exc # "none"
    /\ ShutdownWaited(futures)
    /\ executor' = "shut"
    /\ err' = exc
    /\ exc' = "none"
    /\ pc' = "failed"
    /\ UNCHANGED <<runVars, stage, batch, futures, doneOrder, details_list,
                   tableVars, handle, files, frameVars>>

----------------------------------------------------------------------------
(* Retrieving_data_about_articles, lines 45-72.                            *)

\* lines 56-58: the pool is made and the truncated list handed to map
Retrieving_enter ==
    /\ stage = "stories"
    /\ pc = "call"
    /\ executor' = "open"
    /\ batch' = PySlice(top_stories_ids_array, num_of_stories)
    /\ futures' = <<>>
    /\ doneOrder' = <<>>
    /\ details_list' = <<>>
    /\ pc' = AfterSubmit(0, batch')
    /\ UNCHANGED <<runVars, stage, err, exc, tableVars, handle, files, frameVars>>

\* line 58: list() is complete, the with block is left
Retrieving_listed ==
    /\ stage = "stories"
    /\ pc = "collect"
    /\ Len(details_list) = Len(batch)
    /\ pc' = "with_exit"
    /\ UNCHANGED <<runVars, stage, err, poolVars, tableVars, handle, files, frameVars>>

\* lines 58-72 and 312: the pool is shut, the table built and returned
Retrieving_return ==
    /\ stage = "stories"
    /\ pc = "with_exit"
    /\ exc = "none"
    /\ ShutdownWaited(futures)
    /\ executor' = "shut"
    /\ stories_data' = BuildStories(details_list, <<>>)
    /\ ReleaseBatch
    /\ stage' = "save_stories"
    /\ pc' = "open"
    /\ UNCHANGED <<runVars, err, exc, si, refetched, comments_data, handle,
                   files, frameVars>>

----------------------------------------------------------------------------
(* Saving_data_in_a_csv_file (74-88), Saving_comments_data_in_a_csv_file   *)
(* (119-132) and the writer of lines 291-299: open, write the rows, close. *)

FileStages == {"save_stories", "save_comments", "write_stats"}

FileName(st) == IF st = "save_stories" THEN "top_stories"
                ELSE IF st = "save_comments" THEN "comments"
                ELSE "statistical_analysis"

\* csv.DictWriter writes None and the empty string as an empty field
WriteField(v) == IF v.k = "none" THEN "" ELSE v.s

StoryRow(r) == [id |-> r.id, url |-> IF r.url THEN "u" ELSE "",
                comments_count |-> r.comments_count]
CommentRow(r) == [text |-> WriteField(r.text), parent_story |-> r.parent_story]

RowsOf(st) ==
    IF st = "save_stories"
    THEN [i \in 1..Len(stories_data) |-> StoryRow(stories_data[i])]
    ELSE IF st = "save_comments"
    THEN [i \in 1..Len(comments_data) |-> CommentRow(comments_data[i])]
    ELSE <<stats_results>>

\* open(..., 'w') makes the file empty; the header row follows
FileOpen ==
    /\ stage \in FileStages
    /\ pc = "open"
    /\ handle' = FileName(stage)
    /\ files' = [files EXCEPT ![FileName(stage)] = [exists |-> TRUE, rows |-> <<>>]]
    /\ pc' = "write"
    /\ UNCHANGED <<runVars, stage, err, poolVars, tableVars, frameVars>>

\* open fails: no handle was made
FileOpenRaises ==
    /\ stage \in FileStages
    /\ pc = "open"
    /\ err' = "OSError"
    /\ pc' = "failed"
    /\ UNCHANGED <<runVars, stage, poolVars, tableVars, handle, files, frameVars>>

\* lines 315-324: after the stories the comments are fetched; after the
\* comments the tables are reloaded; after the metrics the run is over
AfterWrite(st) == IF st = "save_stories" THEN [stage |-> "comments", pc |-> "call"]
                  ELSE IF st = "save_comments" THEN [stage |-> "reload", pc |-> "read"]
                  ELSE [stage |-> "done", pc |-> "done"]

\* every row is written and the with block is left
FileWrite ==
    /\ stage \in FileStages
    /\ pc = "write"
    /\ files' = [files EXCEPT ![handle].rows = RowsOf(stage)]
    /\ handle' = CloseOnExit(handle)
    /\ stage' = AfterWrite(stage).stage
    /\ pc' = AfterWrite(stage).pc
    /\ UNCHANGED <<runVars, err, poolVars, tableVars, frameVars>>

\* a write fails after k rows: the exception leaves the with block
FileWriteRaises ==
    /\ stage \in FileStages
    /\ pc = "write"
    /\ \E k \in 0..(Len(RowsOf(stage)) - 1) :
          files' = [files EXCEPT ![handle].rows = SubSeq(RowsOf(stage), 1, k)]
    /\ handle' = CloseOnExit(handle)
    /\ err' = "OSError"
    /\ pc' = "failed"
    /\ UNCHANGED <<runVars, stage, poolVars, tableVars, frameVars>>

----------------------------------------------------------------------------
(* Fetching_responses_to_top_stories, lines 90-117.                        *)

\* lines 100-101
Fetching_enter ==
    /\ stage = "comments"
    /\ pc = "call"
    /\ comments_data' = <<>>
    /\ si' = 0
    /\ refetched' = <<>>
    /\ executor' = "open"
    /\ batch' = <<>>
    /\ futures' = <<>>
    /\ doneOrder' = <<>>
    /\ details_list' = <<>>
    /\ pc' = "loop"
    /\ UNCHANGED <<runVars, stage, err, exc, stories_data, handle, files, frameVars>>

\* lines 102-108: the story is fetched again on the coordinating thread; with
\* a 'kids' field its comments are handed to map, otherwise the next story
Fetching_story(outcome) ==
    /\ stage = "comments"
    /\ pc = "loop"
    /\ si < Len(stories_data)
    /\ refetched' = Append(refetched, outcome)
    /\ LET story_id == stories_data[si + 1].id
       IN  IF outcome = "item" /\ HasKids(story_id)
           THEN /\ batch' = Kids(story_id)
                /\ futures' = <<>>
                /\ doneOrder' = <<>>
                /\ details_list' = <<>>
                /\ pc' = AfterSubmit(0, batch')
                /\ si' = si
           ELSE /\ si' = si + 1
                /\ UNCHANGED <<batch, futures, doneOrder, details_list, pc>>
    /\ UNCHANGED <<runVars, stage, err, executor, exc, stories_data,
                   comments_data, handle, files, frameVars>>

\* line 105 raises: the exception leaves the with block
Fetching_storyRaises ==
    /\ stage = "comments"
    /\ pc = "loop"
    /\ si < Len(stories_data)
    /\ exc' = "RequestException"
    /\ pc' = "with_exit"
    /\ UNCHANGED <<runVars, stage, err, executor, batch, futures, doneOrder,
                   details_list, tableVars, handle, files, frameVars>>

\* lines 108-116: list() is complete, the comments of the story are appended
Fetching_listed ==
    /\ stage = "comments"
    /\ pc = "collect"
    /\ Len(details_list) = Len(batch)
    /\ comments_data' = BuildComments(details_list, comments_data,
                                      stories_data[si + 1].id, si + 1)
    /\ ReleaseBatch
    /\ si' = si + 1
    /\ pc' = "loop"
    /\ UNCHANGED <<runVars, stage, err, executor, exc, stories_data, refetched,
                   handle, files, frameVars>>

\* lines 117, 318-324: the loop is over, the pool is shut, the table returned;
\* an empty table is not written
Fetching_return ==
    /\ stage = "comments"
    /\ pc = "loop"
    /\ si = Len(stories_data)
    /\ ShutdownWaited(futures)
    /\ executor' = "shut"
    /\ stage' = IF comments_data # <<>> THEN "save_comments" ELSE "reload"
    /\ pc' = IF comments_data # <<>> THEN "open" ELSE "read"
    /\ UNCHANGED <<runVars, err, batch, futures, doneOrder, details_list, exc,
                   tableVars, handle, files, frameVars>>

----------------------------------------------------------------------------
(* pd.read_csv, lines 327-328.                                             *)

\* an empty field is read as NaN
ReadField(s) == IF s = "" THEN NaN ELSE Str(s)

ReadStories(rows) == [i \in 1..Len(rows) |->
                        [id |-> rows[i].id, url |-> ReadField(rows[i].url),
                         comments_count |-> rows[i].comments_count]]
ReadComments(rows) == [i \in 1..Len(rows) |->
                         [text |-> ReadField(rows[i].text),
                          parent_story |-> rows[i].parent_story]]

Reload ==
    /\ stage = "reload"
    /\ pc = "read"
    /\ files.comments.exists
    /\ stories_df' = ReadStories(files.top_stories.rows)
    /\ comments_df' = ReadComments(files.comments.rows)
    /\ stage' = "analysis"
    /\ pc' = "compute"
    /\ UNCHANGED <<runVars, err, poolVars, tableVars, handle, files, stats_results>>

\* line 328 with no comments.csv in the directory
ReloadRaises ==
    /\ stage = "reload"
    /\ pc = "read"
    /\ ~files.comments.exists
    /\ stories_df' = ReadStories(files.top_stories.rows)
    /\ err' = "FileNotFoundError"
    /\ pc' = "failed"
    /\ UNCHANGED <<runVars, stage, poolVars, tableVars, handle, files,
                   comments_df, stats_results>>

----------------------------------------------------------------------------
(* Data_analysis_and_statistics, lines 134-299.                            *)

\* a float quotient times 100; numpy gives nan for 0 / 0
Percentage(num, den) == IF den = 0 THEN [nan |-> TRUE, num |-> 0, den |-> 0]
                        ELSE [nan |-> FALSE, num |-> 100 * num, den |-> den]

\* Series.astype(str): str() of every value, 'nan' for NaN
AsTypeStr(v) == IF v.k = "nan" THEN Str("nan") ELSE v
\* Series.fillna(''): the values that are still NaN become ''
FillNa(v) == IF v.k = "nan" THEN Str("") ELSE v
\* line 250
TextColumn(df) == [i \in 1..Len(df) |-> FillNa(AsTypeStr(df[i].text))]
\* line 253
CommentLength(df) == [i \in 1..Len(df) |-> Len(TextColumn(df)[i].s)]

RECURSIVE Sum(_)
Sum(s) == IF s = <<>> THEN 0 ELSE Head(s) + Sum(Tail(s))

\* twice the median of a non-empty column
Median2(s) == LET t == SortSeq(s, LAMBDA a, b : a < b)
                  n == Len(s)
              IN  IF n % 2 = 1 THEN 2 * t[(n + 1) \div 2]
                  ELSE t[n \div 2] + t[n \div 2 + 1]

\* lines 224-227 and 248-257 of stats_results
Stats(sdf, cdf) ==
    LET external_links == Cardinality({i \in 1..Len(sdf) : sdf[i].url.k # "nan"})
        self_posts == Len(sdf) - external_links
    IN  [computed |-> TRUE,
         external_links_percentage |-> Percentage(external_links, Len(sdf)),
         self_posts_percentage |-> Percentage(self_posts, Len(sdf)),
         has_comment_stats |-> cdf # <<>>,
         sum_comment_length |-> Sum(CommentLength(cdf)),
         count_comment_length |-> Len(cdf),
         median2_comment_length |-> IF cdf = <<>> THEN 0
                                    ELSE Median2(CommentLength(cdf))]

\* lines 250-253: the frame gets the converted text and the length column
Analyzed(cdf) == [i \in 1..Len(cdf) |->
                    [text |-> TextColumn(cdf)[i],
                     parent_story |-> cdf[i].parent_story,
                     comment_length |-> CommentLength(cdf)[i]]]

\* lines 143-288: the metrics are computed and the charts drawn
Analyze ==
    /\ stage = "analysis"
    /\ pc = "compute"
    /\ stats_results' = Stats(stories_df, comments_df)
    /\ comments_df' = Analyzed(comments_df)
    /\ stage' = "write_stats"
    /\ pc' = "open"
    /\ UNCHANGED <<runVars, err, poolVars, tableVars, handle, files, stories_df>>

\* lines 229-231: whether a pie of [0, 0] can be drawn is up to the plotting
\* library; when it cannot, its ValueError ends the run
AnalyzeRaises ==
    /\ stage = "analysis"
    /\ pc = "compute"
    /\ Len(stories_df) = 0
    /\ stats_results' = [Stats(stories_df, comments_df) EXCEPT !.computed = FALSE]
    /\ err' = "ValueError"
    /\ pc' = "failed"
    /\ UNCHANGED <<runVars, stage, poolVars, tableVars, handle, files,
                   stories_df, comments_df>>

Next ==
    \/ StartRun
    \/ StartRunRaises
    \/ Submit
    \/ SubmitRaises
    \/ \E i \in 1..Len(futures) : WorkerStart(i)
    \/ \E i \in 1..Len(futures), o \in Outcomes : WorkerFetch(i, o)
    \/ Collect
    \/ CollectRaises
    \/ PoolExitRaises
    \/ Retrieving_enter
    \/ Retrieving_listed
    \/ Retrieving_return
    \/ FileOpen
    \/ FileOpenRaises
    \/ FileWrite
    \/ FileWriteRaises
    \/ Fetching_enter
    \/ \E o \in {"item", "null"} : Fetching_story(o)
    \/ Fetching_storyRaises
    \/ Fetching_listed
    \/ Fetching_return
    \/ Reload
    \/ ReloadRaises
    \/ Analyze
    \/ AnalyzeRaises

Spec == Init /\ [][Next]_vars

----------------------------------------------------------------------------
(* Properties.                                                             *)

\* list(executor.map(...)) has taken every value of the iterator
Listed == pc = "collect" /\ Len(details_list) = Len(futures)

\* C1: the list built from executor.map has one element per identifier of the
\* batch, and its i-th element is the result of the fetch of the i-th
\* identifier (the item of that identifier, or the absent result), whatever
\* the order in which the workers finished.
C1_OrderPreserved ==
    /\ \A i \in 1..Len(details_list) :
          /\ i <= Len(futures)
          /\ futures[i].id = batch[i]
          /\ details_list[i] = Result(futures[i])
          /\ details_list[i] \in {Null, Item(batch[i])}
    /\ Listed => Len(details_list) = Len(batch)

\* a batch of two is listed, the second fetch finished first and one of the
\* two was absent
C1_Witness ==
    /\ Listed
    /\ Len(batch) = 2
    /\ doneOrder = <<2, 1>>
    /\ \E i, j \in 1..2 : details_list[i] = Null /\ Truthy(details_list[j])

\* C2: a fetch never raises; a failed request is an absent result.
C2_FetchNeverRaises ==
    \A i \in 1..Len(futures) : futures[i].st # "raised"

FailedFetch == \E i \in 1..Len(futures) : futures[i].st \in {"null", "raised"}

\* C3: a failed fetch of a batch does not abort the batch: no exception of a
\* fetch leaves the batch or ends the run, and no sibling fetch is cancelled.
C3_FailedFetchDoesNotAbort ==
    FailedFetch =>
        /\ exc # "RequestException"
        /\ err # "RequestException"
        /\ \A i \in 1..Len(futures) : futures[i].st # "cancelled"

\* Retrieving_data_about_articles has returned stories_data
StoriesReturned == stage \notin {"idle", "top_ids", "stories"}

\* number of leading identifiers that ids[:limit] keeps
Kept == IF num_of_stories >= 0
        THEN Min(num_of_stories, Len(top_stories_ids_array))
        ELSE Len(top_stories_ids_array) + num_of_stories

FromTruncated ==
    \A i \in 1..Len(stories_data) :
        \E j \in 1..Kept : top_stories_ids_array[j] = stories_data[i].id

\* C4 as stated: for every limit the table has at most limit records, all of
\* them of identifiers of ids[:limit].
C4_AtMostLimit ==
    StoriesReturned =>
        /\ Len(stories_data) <= num_of_stories
        /\ FromTruncated

\* C4 amended: for every limit >= 0 the table has at most limit records, and
\* for every limit all its records are of identifiers of ids[:limit].
C4_AtMostLimitNonNegative ==
    StoriesReturned =>
        /\ num_of_stories >= 0 => Len(stories_data) <= num_of_stories
        /\ FromTruncated

\* the list is longer than a positive limit and every kept story was fetched
C4_Witness ==
    /\ StoriesReturned
    /\ num_of_stories >= 1
    /\ Len(top_stories_ids_array) > num_of_stories
    /\ Len(stories_data) = num_of_stories

RECURSIVE IsSubseq(_, _)
IsSubseq(a, b) ==
    IF a = <<>> THEN TRUE
    ELSE IF b = <<>> THEN FALSE
    ELSE IF Head(a) = Head(b) THEN IsSubseq(Tail(a), Tail(b))
    ELSE IsSubseq(a, Tail(b))

TableIds == [i \in 1..Len(stories_data) |-> stories_data[i].id]
Truncated == SubSeq(top_stories_ids_array, 1, Kept)
NoDuplicate(s) == \A i, j \in 1..Len(s) : s[i] = s[j] => i = j

\* C8 as stated: the rows of the table are in the order of the truncated
\* identifier list, and no identifier is in the table twice.
C8_OrderedAndUnique ==
    StoriesReturned => IsSubseq(TableIds, Truncated) /\ NoDuplicate(TableIds)

\* C8 amended: the rows of the table are in the order of the truncated
\* identifier list, and no identifier is in the table twice when none is in
\* the truncated list twice.
C8_OrderedUniqueIfInputUnique ==
    StoriesReturned =>
        /\ IsSubseq(TableIds, Truncated)
        /\ NoDuplicate(Truncated) => NoDuplicate(TableIds)

\* two distinct identifiers were fetched and both rows are in the table
C8_Witness ==
    /\ StoriesReturned
    /\ Len(Truncated) = 2
    /\ NoDuplicate(Truncated)
    /\ Len(stories_data) = 2

\* C5: every comment record has the identifier of a story of the table as
\* parent_story, that of the story whose 'kids' list holds the comment; a story
\* fetched again as absent or without 'kids' has no comment record.
C5_ParentInTable ==
    stage = "comments" =>
        /\ \A i \in 1..Len(comments_data) :
              LET c == comments_data[i]
              IN  /\ c.src \in 1..Len(stories_data)
                  /\ c.parent_story = stories_data[c.src].id
                  /\ c.cid \in Range(Kids(c.parent_story))
        /\ \A p \in 1..Len(refetched) :
              (refetched[p] = "null" \/ ~HasKids(stories_data[p].id))
                  => \A i \in 1..Len(comments_data) : comments_data[i].src # p

\* both comments of one story are in the table and the other story was
\* fetched again as absent
C5_Witness ==
    /\ stage = "comments"
    /\ si = Len(stories_data)
    /\ Len(comments_data) = 2
    /\ \E p \in 1..Len(refetched) : refetched[p] = "null"

\* the run got an empty top-story list
EmptyRun == stage \notin {"idle", "top_ids"} /\ top_stories_ids_array = <<>>

\* C6: with an empty top-story list the run ends in a precondition failure
\* of the analysis stage, and no metrics file with a 0/0 percentage is
\* written (a run that a file error ended is left aside).
C6_EmptyTableFailsFast ==
    /\ (EmptyRun /\ Ended /\ err # "OSError") =>
          (pc = "failed" /\ stage = "analysis" /\ err = "PreconditionError")
    /\ \A i \in 1..Len(files.statistical_analysis.rows) :
          ~files.statistical_analysis.rows[i].external_links_percentage.nan

\* C7: a comment fetched with an absent or empty text has comment_length 0.
C7_EmptyTextHasLengthZero ==
    (stage \in {"write_stats", "done"} /\ comments_data # <<>>) =>
        \A i \in 1..Len(comments_data) :
            comments_data[i].text.s = "" => comments_df[i].comment_length = 0

\* C9: the comment table handed to the analysis is the one this run built,
\* and the reload does not fail for want of the file.
C9_AnalysisGetsOwnComments ==
    /\ err # "FileNotFoundError"
    /\ (stage = "analysis" /\ pc = "compute") =>
          /\ Len(comments_df) = Len(comments_data)
          /\ \A i \in 1..Len(comments_df) :
                /\ comments_df[i].parent_story = comments_data[i].parent_story
                /\ comments_df[i].text = ReadField(WriteField(comments_data[i].text))

\* C10: the pool is open only inside its with block and no fetch is queued
\* or running once it is shut; a file is open only inside its with block; a
\* run that has ended, normally or by an exception, holds neither.
C10_ResourcesReleased ==
    /\ executor = "open" =>
          stage \in {"stories", "comments"} /\ pc \in {"submit", "collect", "loop", "with_exit"}
    /\ executor # "open" =>
          \A i \in 1..Len(futures) : futures[i].st \notin {"pending", "running"}
    /\ handle # "none" => stage \in FileStages /\ pc = "write"
    /\ Ended => executor # "open" /\ handle = "none"

\* the exception of the first fetch ended the run after the second had
\* finished, and the pool is shut
C10_Witness ==
    /\ pc = "failed"
    /\ err = "RequestException"
    /\ executor = "shut"
    /\ Len(futures) = 2
    /\ doneOrder = <<1, 2>>
    /\ details_list = <<>>
    /\ futures[1].st = "raised"
====
